---- MODULE Spec2Model ----
(***************************************************************************)
(* A TableQuery view (src/src/lib/index.ts) over one table of the client   *)
(* cache, together with the collaborators it consumes: the status store    *)
(* (src/unnamed/part_000), the client connection, its subscriptions and    *)
(* the table's row callbacks.                                              *)
(***************************************************************************)
EXTENDS Integers, Sequences, FiniteSets, TLC

\* ------------------------------------------------------------------ bounds
MaxId == 2          \* primary keys 1..MaxId
MaxTx == 2          \* upstream transactions in one behaviour
MaxOps == 2         \* row events carried by one transaction
MaxApplied == 2     \* applied callbacks in one behaviour
MaxDestroy == 2     \* destroy() calls that reach a subscription handle
MaxSize == 3        \* leaves and empty operands of the expressions built

Ids == 1..MaxId
Statuses == {"disconnected", "connecting", "connected", "error"}

\* --------------------------------------------------------------- JS values
\* A value carries its typeof tag, so that === is type-and-value equality.
Str(s) == [t |-> "string", v |-> s]
\* A number is a finite integer (Num), a finite decimal fraction (Dec) or one
\* of the three values that are not finite.
Num(n) == [t |-> "number", v |-> n]
\* m / 10^k: m is no multiple of 10; k > 0 for a fraction, k < 0 for an
\* integer too large to be a Num
Dec(m, k) == [t |-> "number", v |-> m, e |-> k]
NaN == [t |-> "number", nonFinite |-> "NaN"]
Infinity == [t |-> "number", nonFinite |-> "Infinity"]
NegInfinity == [t |-> "number", nonFinite |-> "-Infinity"]
Bool(b) == [t |-> "boolean", v |-> b]
Undefined == [t |-> "undefined", v |-> 0]
Null == 0

\* Number.isFinite(v)
isFinite(v) == "nonFinite" \notin DOMAIN v

\* a === b: same type and same value; NaN is equal to nothing, not to itself
StrictEq(a, b) == a.t = b.t /\ DOMAIN a = DOMAIN b /\ a = b /\ a # NaN

\* row[key]: undefined when the row has no such column
Get(row, key) == IF key \in DOMAIN row THEN row[key] ELSE Undefined

\* ---------------------------------------------------------- expression DSL
Falsy == [type |-> "falsy"]          \* an absent operand (undefined, null, false)
NoWhere == [type |-> "undefined"]    \* #whereClause when no builder was given

eq(key, value) == [type |-> "eq", key |-> key, value |-> value]

\* the loop of and()/or(): drop falsy operands, splice same-operator children
RECURSIVE flat(_, _)
\* mutant: children of the same operator are pushed whole, not spliced
flat_noSplice(op, children) ==
    IF children = <<>> THEN <<>>
    ELSE LET c == Head(children)
             rest == flat(op, Tail(children))
         IN  IF c.type = "falsy" THEN rest
             ELSE <<c>> \o rest

flat(op, children) ==
    IF children = <<>> THEN <<>>
    ELSE LET c == Head(children)
             rest == flat(op, Tail(children))
         IN  IF c.type = "falsy" THEN rest
             ELSE IF c.type = op THEN c.children \o rest
             ELSE <<c>> \o rest

pruned(op, children) == SelectSeq(flat(op, children), LAMBDA c : c.type # "falsy")

\* mutant: the empty AND node is built as the empty OR node
and_emptyAsOr(children) ==
    LET p == pruned("and", children)
    IN  IF Len(p) = 0 THEN [type |-> "or", children |-> <<>>]
        ELSE IF Len(p) = 1 THEN p[1]
        ELSE [type |-> "and", children |-> p]

and(children) ==
    LET p == pruned("and", children)
    IN  IF Len(p) = 0 THEN [type |-> "and", children |-> <<>>]
        ELSE IF Len(p) = 1 THEN p[1]
        ELSE [type |-> "and", children |-> p]

\* mutant: a single surviving operand is not collapsed
or_noCollapse(children) ==
    LET p == pruned("or", children)
    IN  [type |-> "or", children |-> p]

or(children) ==
    LET p == pruned("or", children)
    IN  IF Len(p) = 0 THEN [type |-> "or", children |-> <<>>]
        ELSE IF Len(p) = 1 THEN p[1]
        ELSE [type |-> "or", children |-> p]

where(expr) == expr

RECURSIVE evaluate(_, _)
\* mutant: a value that is no scalar satisfies the leaf
evaluate_fallbackTrue(expr, row) ==
    CASE expr.type = "eq" ->
           LET v == Get(row, expr.key)
           IN  IF v.t \in {"string", "number", "boolean"}
               THEN StrictEq(v, expr.value)
               ELSE TRUE
      [] expr.type = "and" ->
           Len(expr.children) = 0
           \/ \A i \in 1..Len(expr.children) : evaluate(expr.children[i], row)
      [] expr.type = "or" ->
           Len(expr.children) # 0
           /\ \E i \in 1..Len(expr.children) : evaluate(expr.children[i], row)

evaluate(expr, row) ==
    CASE expr.type = "eq" ->
           LET v == Get(row, expr.key)
           IN  IF v.t \in {"string", "number", "boolean"}
               THEN StrictEq(v, expr.value)
               ELSE FALSE
      [] expr.type = "and" ->
           Len(expr.children) = 0
           \/ \A i \in 1..Len(expr.children) : evaluate(expr.children[i], row)
      [] expr.type = "or" ->
           Len(expr.children) # 0
           /\ \E i \in 1..Len(expr.children) : evaluate(expr.children[i], row)

classifyMembership(whereExpr, oldRow, newRow) ==
    IF whereExpr = NoWhere THEN "stayIn"
    ELSE LET oldIn == evaluate(whereExpr, oldRow)
             newIn == evaluate(whereExpr, newRow)
         IN  IF oldIn /\ ~newIn THEN "leave"
             ELSE IF ~oldIn /\ newIn THEN "enter"
             ELSE IF oldIn /\ newIn THEN "stayIn"
             ELSE "stayOut"

\* ---------------------------------------------------------------- rendering
\* A text is the sequence of its characters. Strings are atoms elsewhere in
\* the model; Spelling gives the characters of the ones that are rendered.
Spelling ==
    ("role" :> <<"r", "o", "l", "e">>) @@
    ("dept" :> <<"d", "e", "p", "t">>) @@
    ("level" :> <<"l", "e", "v", "e", "l">>) @@
    ("isActive" :> <<"i", "s", "A", "c", "t", "i", "v", "e">>) @@
    ("first name" :> <<"f", "i", "r", "s", "t", " ", "n", "a", "m", "e">>) @@
    ("admin" :> <<"a", "d", "m", "i", "n">>) @@
    ("Eng" :> <<"E", "n", "g">>) @@
    ("Product" :> <<"P", "r", "o", "d", "u", "c", "t">>) @@
    ("O'Neil" :> <<"O", "'", "N", "e", "i", "l">>) @@
    ("users" :> <<"u", "s", "e", "r", "s">>) @@
    ("-12" :> <<"-", "1", "2">>) @@
    ("score" :> <<"s", "c", "o", "r", "e">>) @@
    ("NaN" :> <<"N", "a", "N">>) @@
    ("Infinity" :> <<"I", "n", "f", "i", "n", "i", "t", "y">>) @@
    ("-Infinity" :> <<"-", "I", "n", "f", "i", "n", "i", "t", "y">>)

Chars(s) == Spelling[s]

Letters ==
    { "A", "B", "C", "D", "E", "F", "G", "H", "I", "J", "K", "L", "M",
      "N", "O", "P", "Q", "R", "S", "T", "U", "V", "W", "X", "Y", "Z",
      "a", "b", "c", "d", "e", "f", "g", "h", "i", "j", "k", "l", "m",
      "n", "o", "p", "q", "r", "s", "t", "u", "v", "w", "x", "y", "z" }
Digit == <<"0", "1", "2", "3", "4", "5", "6", "7", "8", "9">>
DigitChars == { Digit[i] : i \in 1..Len(Digit) }

\* s.replace(/c/g, by)
RECURSIVE replace(_, _, _)
replace(s, c, by) ==
    IF s = <<>> THEN <<>>
    ELSE (IF Head(s) = c THEN by ELSE <<Head(s)>>) \o replace(Tail(s), c, by)

\* String(v) of a finite integer
RECURSIVE digits(_)
digits(n) ==
    IF n < Len(Digit) THEN <<Digit[n + 1]>>
    ELSE digits(n \div Len(Digit)) \o <<Digit[(n % Len(Digit)) + 1]>>

NumberToString(n) == IF n < 0 THEN <<"-">> \o digits(-n) ELSE digits(n)

\* n times the digit 0
RECURSIVE zeros(_)
zeros(n) == IF n <= 0 THEN <<>> ELSE <<"0">> \o zeros(n - 1)

\* Number::toString of a finite number with the significant digits s (no
\* trailing zero) and the value 0.s * 10^n: positional notation for
\* -6 < n <= 21, exponent notation otherwise
Notation(s, n) ==
    LET k == Len(s)
        x == n - 1
    IN  IF k <= n /\ n <= 21 THEN s \o zeros(n - k)
        ELSE IF 0 < n /\ n <= 21
             THEN SubSeq(s, 1, n) \o <<".">> \o SubSeq(s, n + 1, k)
        ELSE IF -6 < n /\ n <= 0 THEN <<"0", ".">> \o zeros(0 - n) \o s
        ELSE <<Head(s)>> \o (IF k = 1 THEN <<>> ELSE <<".">> \o Tail(s))
                 \o <<"e">> \o (IF x < 0 THEN <<"-">> ELSE <<"+">>)
                 \o digits(IF x < 0 THEN 0 - x ELSE x)

\* String(v) of a number
String(v) ==
    IF ~isFinite(v) THEN Chars(v.nonFinite)
    ELSE IF "e" \in DOMAIN v
         THEN LET a == IF v.v < 0 THEN 0 - v.v ELSE v.v
              IN  (IF v.v < 0 THEN <<"-">> ELSE <<>>)
                      \o Notation(digits(a), Len(digits(a)) - v.e)
    ELSE NumberToString(v.v)

formatValue(v) ==
    CASE v.t = "string" -> <<"'">> \o replace(Chars(v.v), "'", <<"'", "'">>) \o <<"'">>
      [] v.t = "number" -> IF isFinite(v) THEN String(v)
                           ELSE <<"'">> \o String(v) \o <<"'">>
      [] v.t = "boolean" -> IF v.v THEN <<"T", "R", "U", "E">>
                            ELSE <<"F", "A", "L", "S", "E">>

\* /^[A-Za-z_][A-Za-z0-9_]*$/.test(id)
IsPlainIdent(cs) ==
    /\ cs # <<>>
    /\ cs[1] \in Letters \cup {"_"}
    /\ \A i \in 2..Len(cs) : cs[i] \in Letters \cup DigitChars \cup {"_"}

escapeIdent(id) ==
    IF IsPlainIdent(Chars(id)) THEN Chars(id)
    ELSE <<"\"">> \o replace(Chars(id), "\"", <<"\"", "\"">>) \o <<"\"">>

includes(s, sub) ==
    \E i \in 1..(Len(s) - Len(sub) + 1) : SubSeq(s, i, i + Len(sub) - 1) = sub

AndSep == <<" ", "A", "N", "D", " ">>
OrSep == <<" ", "O", "R", " ">>

\* mutant: the text is never wrapped
parenthesize_never(s) == s

parenthesize(s) ==
    IF ~includes(s, AndSep) /\ ~includes(s, OrSep) THEN s
    ELSE <<"(">> \o s \o <<")">>

\* texts.join(sep)
RECURSIVE join(_, _)
join(texts, sep) ==
    IF texts = <<>> THEN <<>>
    ELSE IF Len(texts) = 1 THEN texts[1]
    ELSE texts[1] \o sep \o join(Tail(texts), sep)

RECURSIVE toString(_)
toString(expr) ==
    CASE expr.type = "eq" ->
           escapeIdent(expr.key) \o <<" ", "=", " ">> \o formatValue(expr.value)
      [] expr.type = "and" ->
           parenthesize(join([i \in 1..Len(expr.children) |->
                                 toString(expr.children[i])], AndSep))
      [] expr.type = "or" ->
           parenthesize(join([i \in 1..Len(expr.children) |->
                                 toString(expr.children[i])], OrSep))

SelectFrom ==
    <<"S", "E", "L", "E", "C", "T", " ", "*", " ", "F", "R", "O", "M", " ">>
Where == <<" ", "W", "H", "E", "R", "E", " ">>

\* #query, as the constructor builds it
query(tableName, whereClause) ==
    SelectFrom \o Chars(tableName)
        \o (IF whereClause # NoWhere THEN Where \o toString(whereClause) ELSE <<>>)

\* ------------------------------------------------------------------- rows
\* the rows of the table explored: a primary key and one filtered column
RowsOf(i) == { [id |-> Num(i), isActive |-> Bool(a)] : a \in BOOLEAN }
AllRows == UNION { RowsOf(i) : i \in Ids }

\* The predicates a consumer builds in the runs explored here: none, one
\* that some rows satisfy, one that every row satisfies, and one that no row
\* satisfies (the rows have no dept column).
WhereClauses ==
    { NoWhere,
      where(eq("isActive", Bool(TRUE))),
      where(or(<<eq("isActive", Bool(TRUE)), eq("isActive", Bool(FALSE))>>)),
      where(and(<<eq("isActive", Bool(TRUE)), eq("dept", Str("Eng"))>>)) }

\* ------------------------------------------------------------------ state
VARIABLES
    status,          \* value of the SpacetimeDB.status store
    isActive,        \* client.isActive
    statusListener,  \* handleStatusChange is subscribed to the status store
    table,           \* rows of the client's table cache (one row per id)
    listeners,       \* the table object: the row callbacks registered on it, per
                     \* kind and in order, and whether it has onUpdate at all
    subs,            \* subscriptions issued by subscriptionBuilder().subscribe()
    view,            \* the TableQuery instance and what its consumer observed
    pending,         \* raw row events of the last transaction, not yet emitted
    current,         \* the raw event emitted last and how many listeners it ran
    nextTx,          \* identity of the next upstream transaction
    run,             \* observation: the current group of same-transaction events
    applied,         \* observation: number of applied callbacks so far
    destroyed,       \* observation: destroy() has been called
    deferred,        \* observation: fate of a 'connected' delivered while inactive
    stack,           \* operands a where-callback has built and not yet combined
    out,             \* the last call into the expression DSL and what it returned
    views,           \* the TableQuery instances, when two share the table
    turn             \* whose closures sit where, and who is being called back

vars == <<status, isActive, statusListener, table, listeners, subs, view,
          pending, current, nextTx, run, applied, destroyed, deferred,
          stack, out, views, turn>>

\* no second instance is being followed
NoTurn == [owner |-> <<>>, notify |-> <<>>, cursor |-> 0]

\* no call into the expression DSL is being followed
NoOut == [op |-> "none", args |-> <<>>, row |-> <<>>, result |-> <<>>]

StatusHandle == [h |-> "unsubscribeStatus", id |-> 0]
NoEvent == [kind |-> "none"]
Idle == [ev |-> NoEvent, ran |-> 0]

\* The fields of a TableQuery after the field initialisers ran. calls,
\* recomputes, trace and snapshots record what the instance did to its
\* consumer: the callbacks and recomputes of the raw event being handled,
\* the order they came in, and the phase the view was in at every invocation
\* of the consumer's onInitialSnapshot.
NewView(wc) ==
    [ rows |-> {},
      subscribeApplied |-> FALSE,
      whereClause |-> wc,
      latestTransactionEvent |-> Null,
      unsubscribe |-> Null,
      tableUnSubscribers |-> <<>>,
      initialSnapshotHandler |-> "armed",
      calls |-> <<>>,
      recomputes |-> 0,
      trace |-> <<>>,
      snapshots |-> <<>> ]

state(v) == IF v.subscribeApplied THEN "ready" ELSE "loading"

\* ------------------------------------------------------- snapshot handling
\* mutant: the snapshot forgets the predicate
computeSnapshot_unfiltered(v, tbl) == tbl

computeSnapshot(v, tbl) ==
    IF v.whereClause # NoWhere
    THEN { row \in tbl : evaluate(v.whereClause, row) }
    ELSE tbl

\* mutant: the consumer's callback is stored without once()
initialSnapshotHandler_everyTime(v, rows) ==
    [v EXCEPT !.initialSnapshotHandler = "spent",
              !.snapshots = Append(@, [state |-> state(v)])]

\* once(callbacks.onInitialSnapshot): the first call reaches the consumer
initialSnapshotHandler(v, rows) ==
    IF v.initialSnapshotHandler = "armed"
    THEN [v EXCEPT !.initialSnapshotHandler = "spent",
                   !.snapshots = Append(@, [state |-> state(v)])]
    ELSE v

updateSnapshot(v, tbl) ==
    LET v1 == [v EXCEPT !.rows = computeSnapshot(v, tbl),
                        !.recomputes = @ + 1,
                        !.trace = Append(@, "recompute")]
    IN  initialSnapshotHandler(v1, v1.rows)

\* mutant: the applied callback flips the flag instead of setting it
onApplied_toggle(v, tbl) ==
    updateSnapshot([v EXCEPT !.subscribeApplied = ~@], tbl)

onApplied(v, tbl) ==
    updateSnapshot([v EXCEPT !.subscribeApplied = TRUE], tbl)

\* mutant: every handled event recomputes, whatever its transaction
updateOncePerTransaction_always(v, tbl, ctxEvent) ==
    updateSnapshot([v EXCEPT !.latestTransactionEvent = ctxEvent], tbl)

\* "Only update snapshot once per transaction event"
updateOncePerTransaction(v, tbl, ctxEvent) ==
    IF ctxEvent # v.latestTransactionEvent \/ v.latestTransactionEvent = Null
    THEN updateSnapshot([v EXCEPT !.latestTransactionEvent = ctxEvent], tbl)
    ELSE v

Call(cb, args) == [cb |-> cb, args |-> args]

\* this.#callbacks?.cb?.(...args)
invoke(v, cb, args) ==
    [v EXCEPT !.calls = Append(@, Call(cb, args)),
              !.trace = Append(@, "callback")]

\* mutant: the insert listener does not test the row against the predicate
onInsert_unfiltered(v, tbl, ctxEvent, row) ==
    updateOncePerTransaction(
        invoke(v, "onInsert", <<row>>),
        tbl, ctxEvent)

onInsert(v, tbl, ctxEvent, row) ==
    IF v.whereClause # NoWhere /\ ~evaluate(v.whereClause, row)
    THEN v
    ELSE updateOncePerTransaction(
             invoke(v, "onInsert", <<row>>),
             tbl, ctxEvent)

onDelete(v, tbl, ctxEvent, row) ==
    IF v.whereClause # NoWhere /\ ~evaluate(v.whereClause, row)
    THEN v
    ELSE updateOncePerTransaction(
             invoke(v, "onDelete", <<row>>),
             tbl, ctxEvent)

onUpdate(v, tbl, ctxEvent, oldRow, newRow) ==
    LET change == classifyMembership(v.whereClause, oldRow, newRow)
    IN  CASE change = "leave" ->
               updateOncePerTransaction(
                   invoke(v, "onDelete", <<oldRow>>),
                   tbl, ctxEvent)
          [] change = "enter" ->
               updateOncePerTransaction(
                   invoke(v, "onInsert", <<newRow>>),
                   tbl, ctxEvent)
          [] change = "stayIn" ->
               updateOncePerTransaction(
                   invoke(v, "onUpdate", <<oldRow, newRow>>),
                   tbl, ctxEvent)
          [] change = "stayOut" -> v

\* ------------------------------------------------ subscription and teardown
\* A world is the part of the state the constructor, handleStatusChange and
\* destroy read and write.
World == [ view |-> view, subs |-> subs, listeners |-> listeners,
           statusListener |-> statusListener,
           status |-> status, isActive |-> isActive ]

setupTableListeners(w) ==
    LET k == Len(w.subs)     \* the closures created by this call
    IN  [w EXCEPT
           !.listeners = [@ EXCEPT
                             !.insert = Append(@, k),
                             !.delete = Append(@, k),
                             \* table.onUpdate?.(onUpdate)
                             !.update = IF w.listeners.hasOnUpdate
                                        THEN Append(@, k) ELSE @],
           !.view.tableUnSubscribers =
               @ \o << [h |-> "removeOnInsert", id |-> k],
                       [h |-> "removeOnDelete", id |-> k],
                       [h |-> "removeOnUpdate", id |-> k] >>]

setupSubscription(w) ==
    IF ~w.isActive THEN w
    ELSE LET w1 == [w EXCEPT !.subs = Append(@, [status |-> w.status,
                                                 active |-> w.isActive,
                                                 cancelled |-> FALSE,
                                                 unsubscribes |-> 0])]
             w2 == [w1 EXCEPT !.view.unsubscribe = Len(w1.subs)]
         IN  setupTableListeners(w2)

\* mutant: the status listener does not return early on other statuses
handleStatusChange_anyStatus(w, st, unsubscribeStatus) ==
    LET w1 == setupSubscription(w)
    IN  IF unsubscribeStatus
        THEN [w1 EXCEPT
                !.statusListener = FALSE,
                !.view.tableUnSubscribers =
                    SelectSeq(@, LAMBDA fn : fn # StatusHandle)]
        ELSE w1

\* unsubscribeStatus: whether the closure variable has been assigned yet
handleStatusChange(w, st, unsubscribeStatus) ==
    IF st # "connected" THEN w
    ELSE LET w1 == setupSubscription(w)
         IN  IF unsubscribeStatus
             THEN [w1 EXCEPT
                     !.statusListener = FALSE,
                     !.view.tableUnSubscribers =
                         SelectSeq(@, LAMBDA fn : fn # StatusHandle)]
             ELSE w1

\* new TableQuery(...): the store calls handleStatusChange with its current
\* value from inside subscribe(), before unsubscribeStatus is assigned
constructorIn(w, wc) ==
    LET w0 == [w EXCEPT !.view = NewView(wc), !.statusListener = TRUE]
        w1 == handleStatusChange(w0, w.status, FALSE)
    IN  [w1 EXCEPT !.view.tableUnSubscribers = Append(@, StatusHandle)]

\* The table object before any callback is registered. Only a table with a
\* primary key has the methods onUpdate and removeOnUpdate.
NoCallbacks(keyed) ==
    [insert |-> <<>>, delete |-> <<>>, update |-> <<>>, hasOnUpdate |-> keyed]

\* the first TableQuery of a connection that has no subscription yet
constructor(wc, st, act, keyed) ==
    constructorIn([ view |-> NewView(wc), subs |-> <<>>,
                    listeners |-> NoCallbacks(keyed),
                    statusListener |-> TRUE, status |-> st, isActive |-> act ], wc)

\* mutant: removing one callback clears every callback of the table
Remove_all(seq, k) == <<>>

\* table.removeOnX(cb): the callback cb is taken off the table's list
Remove(seq, k) == SelectSeq(seq, LAMBDA x : x # k)

\* one stored cleanup function
unsubscriber(w, fn) ==
    CASE fn.h = "unsubscribeStatus" -> [w EXCEPT !.statusListener = FALSE]
      [] fn.h = "removeOnInsert" -> [w EXCEPT !.listeners.insert = Remove(@, fn.id)]
      [] fn.h = "removeOnDelete" -> [w EXCEPT !.listeners.delete = Remove(@, fn.id)]
      \* table.removeOnUpdate?.(onUpdate)
      [] fn.h = "removeOnUpdate" ->
           IF w.listeners.hasOnUpdate
           THEN [w EXCEPT !.listeners.update = Remove(@, fn.id)]
           ELSE w

RECURSIVE forEachUnsubscriber(_, _)
forEachUnsubscriber(w, fns) ==
    IF fns = <<>> THEN w
    ELSE forEachUnsubscriber(unsubscriber(w, Head(fns)), Tail(fns))

\* #unsubscribe is never reset: every destroy() calls cancel.unsubscribe()
destroy(w) ==
    LET w1 == IF w.view.unsubscribe # Null
              THEN [w EXCEPT !.subs[w.view.unsubscribe].cancelled = TRUE,
                             !.subs[w.view.unsubscribe].unsubscribes = @ + 1]
              ELSE w
        w2 == forEachUnsubscriber(w1, w1.view.tableUnSubscribers)
    IN  [w2 EXCEPT !.view.tableUnSubscribers = <<>>]

\* ---------------------------------------------------------------- actions
SetWorld(w) ==
    /\ view' = w.view
    /\ subs' = w.subs
    /\ listeners' = w.listeners
    /\ statusListener' = w.statusListener

Init ==
    \E wc \in WhereClauses, st \in Statuses, act \in BOOLEAN, keyed \in BOOLEAN :
        LET w == constructor(wc, st, act, keyed)
        IN  /\ status = st
            /\ isActive = act
            /\ view = w.view
            /\ subs = w.subs
            /\ listeners = w.listeners
            /\ statusListener = w.statusListener
            /\ table = {}
            /\ pending = <<>>
            /\ current = Idle
            /\ nextTx = 1
            /\ run = [tx |-> Null, recomputes |-> 0]
            /\ applied = 0
            /\ destroyed = FALSE
            /\ deferred = IF st = "connected" /\ ~act THEN "deferred" ELSE "none"
            /\ stack = <<>>
            /\ out = NoOut
            /\ views = <<>>
            /\ turn = NoTurn

\* calls, recomputes and trace describe the raw event in current only
Settled(v) == [v EXCEPT !.calls = <<>>, !.recomputes = 0, !.trace = <<>>]

\* the table is not emitting: no raw event is queued or being handled
Quiet == pending = <<>> /\ current = Idle

\* The view can still be reached by the status store: its listener is
\* subscribed, or a deferred subscribe attempt is still owed to it. Once
\* neither holds nothing reads status or isActive any more, and the model
\* stops following their changes.
StatusMatters == statusListener \/ (deferred = "deferred" /\ ~destroyed)

\* SpacetimeDB.status.set(st): the store notifies its subscribers of a new value
SetStatus(st) ==
    /\ Quiet
    /\ StatusMatters
    /\ st # status
    /\ status' = st
    /\ LET w0 == [World EXCEPT !.status = st]
       IN  SetWorld(IF statusListener THEN handleStatusChange(w0, st, TRUE) ELSE w0)
    /\ deferred' =
         IF st # "connected" THEN deferred
         ELSE IF isActive
              THEN (IF deferred = "deferred" /\ ~destroyed THEN "due" ELSE deferred)
              ELSE (IF deferred = "none" /\ statusListener THEN "deferred" ELSE deferred)
    /\ UNCHANGED <<stack, out, views, turn>>
    /\ UNCHANGED <<isActive, table, pending, current, nextTx, run, applied,
                   destroyed>>

\* the connection becomes active or inactive
SetActive ==
    /\ Quiet
    /\ StatusMatters
    /\ isActive' = ~isActive
    /\ UNCHANGED <<stack, out, views, turn>>
    /\ UNCHANGED <<status, statusListener, table, listeners, subs, view,
                   pending, current, nextTx, run, applied, destroyed, deferred>>

Gone == [gone |-> TRUE]
Present(tbl, i) == \E r \in tbl : r.id.v = i
RowAt(tbl, i) == CHOOSE r \in tbl : r.id.v = i

RawEvent(tbl, tx, i, new) ==
    IF ~Present(tbl, i) THEN [kind |-> "insert", event |-> tx, row |-> new]
    ELSE IF new = Gone THEN [kind |-> "delete", event |-> tx, row |-> RowAt(tbl, i)]
    ELSE [kind |-> "update", event |-> tx, oldRow |-> RowAt(tbl, i), newRow |-> new]

\* What a transaction can make of the row with key i. A table without
\* primary key has no update events: its rows are inserted and deleted only.
Outcomes(tbl, i, keyed) ==
    IF Present(tbl, i)
    THEN {Gone} \cup (IF keyed THEN RowsOf(i) \ {RowAt(tbl, i)} ELSE {})
    ELSE RowsOf(i)

\* the ways a transaction can change the rows with the keys in I, as
\* sequences of <<key, outcome>> in key order
RECURSIVE Changes(_, _, _)
Changes(tbl, I, keyed) ==
    IF I = {} THEN { <<>> }
    ELSE LET i == CHOOSE k \in I : \A j \in I : k <= j
         IN  { <<[id |-> i, new |-> o]>> \o rest :
                 o \in Outcomes(tbl, i, keyed),
                 rest \in Changes(tbl, I \ {i}, keyed) }

\* The view can still be reached by the table or by a subscription: it has
\* not been torn down, or the teardown left a row callback registered or a
\* subscription uncancelled. Once none holds the model stops following the
\* table.
TableMatters ==
    \/ ~destroyed
    \/ listeners.insert # <<>> \/ listeners.delete # <<>> \/ listeners.update # <<>>
    \/ \E i \in 1..Len(subs) : ~subs[i].cancelled

\* One upstream transaction: the cache applies all of its row operations and
\* only then emits their row callbacks, each carrying the same ctx.event.
Transaction ==
    /\ Quiet
    /\ TableMatters
    /\ nextTx <= MaxTx
    /\ \E I \in SUBSET Ids :
         /\ I # {}
         /\ Cardinality(I) <= MaxOps
         /\ \E ch \in Changes(table, I, listeners.hasOnUpdate) :
              /\ table' = { r \in table : r.id.v \notin I }
                            \cup { ch[k].new : k \in { j \in 1..Len(ch) : ch[j].new # Gone } }
              /\ pending' = [k \in 1..Len(ch) |->
                                RawEvent(table, nextTx, ch[k].id, ch[k].new)]
    /\ nextTx' = nextTx + 1
    /\ UNCHANGED <<stack, out, views, turn>>
    /\ UNCHANGED <<status, isActive, statusListener, listeners, subs, view,
                   current, run, applied, destroyed, deferred>>

\* the view ignores the raw event: its row(s) fail the predicate
Ignored(v, ev) ==
    IF ev.kind = "update"
    THEN classifyMembership(v.whereClause, ev.oldRow, ev.newRow) = "stayOut"
    ELSE v.whereClause # NoWhere /\ ~evaluate(v.whereClause, ev.row)

\* the listener registered for the kind of ev
listener(v, tbl, ev) ==
    CASE ev.kind = "insert" -> onInsert(v, tbl, ev.event, ev.row)
      [] ev.kind = "delete" -> onDelete(v, tbl, ev.event, ev.row)
      [] ev.kind = "update" -> onUpdate(v, tbl, ev.event, ev.oldRow, ev.newRow)

\* the table calls each of the n callbacks registered for the kind of ev
RECURSIVE emit(_, _, _, _)
emit(v, tbl, ev, n) ==
    IF n = 0 THEN v ELSE emit(listener(v, tbl, ev), tbl, ev, n - 1)

\* The table emits the next raw event: the listeners the view registered for
\* its kind run one after the other, nothing else in between.
Emit(kind) ==
    /\ pending # <<>>
    /\ Head(pending).kind = kind
    /\ LET ev == Head(pending)
           n == Len(listeners[kind])
           v2 == emit(Settled(view), table, ev, n)
       IN  /\ view' = v2
           /\ current' = [ev |-> ev, ran |-> n]
           /\ run' = IF n = 0 \/ Ignored(view, ev) THEN run
                     ELSE [tx |-> ev.event,
                           recomputes |->
                               (IF ev.event = run.tx THEN run.recomputes ELSE 0)
                               + v2.recomputes]
    /\ pending' = Tail(pending)
    /\ UNCHANGED <<stack, out, views, turn>>
    /\ UNCHANGED <<status, isActive, statusListener, table, listeners, subs,
                   nextTx, applied, destroyed, deferred>>

EmitInsert == Emit("insert")
EmitDelete == Emit("delete")
EmitUpdate == Emit("update")

\* the table has called back for every row of the transaction and returns
EndEmit ==
    /\ pending = <<>>
    /\ current # Idle
    /\ current' = Idle
    /\ view' = Settled(view)
    /\ UNCHANGED <<stack, out, views, turn>>
    /\ UNCHANGED <<status, isActive, statusListener, table, listeners, subs,
                   pending, nextTx, run, applied, destroyed, deferred>>

\* a live subscription reports that its data has been applied
Applied(i) ==
    /\ Quiet
    /\ ~subs[i].cancelled
    /\ applied < MaxApplied
    /\ applied' = applied + 1
    /\ view' = Settled(onApplied(view, table))
    /\ UNCHANGED <<stack, out, views, turn>>
    /\ UNCHANGED <<status, isActive, statusListener, table, listeners, subs,
                   pending, current, nextTx, run, destroyed, deferred>>

Destroy ==
    /\ Quiet
    /\ view.unsubscribe # Null =>
           subs[view.unsubscribe].unsubscribes < MaxDestroy
    /\ SetWorld(destroy(World))
    /\ destroyed' = TRUE
    /\ UNCHANGED <<stack, out, views, turn>>
    /\ UNCHANGED <<status, isActive, table, pending, current, nextTx, run,
                   applied, deferred>>

Next ==
    \/ \E st \in Statuses : SetStatus(st)
    \/ SetActive
    \/ Transaction
    \/ EmitInsert
    \/ EmitDelete
    \/ EmitUpdate
    \/ EndEmit
    \/ \E i \in 1..Len(subs) : Applied(i)
    \/ Destroy

Spec == Init /\ [][Next]_vars

TypeOK ==
    /\ status \in Statuses
    /\ isActive \in BOOLEAN
    /\ view.rows \subseteq AllRows
    /\ view.latestTransactionEvent \in 0..MaxTx
    /\ Len(pending) <= MaxOps
    /\ listeners.hasOnUpdate \in BOOLEAN

\* ------------------------------------------------- the expression DSL, called
\* The leaves a where-callback passes to eq() in the runs explored here: one
\* where-callback draws its leaves from one of these vocabularies.
Vocabularies ==
    { { eq("role", Str("admin")),
        eq("dept", Str("Eng")),
        eq("dept", Str("Product")) },
      { eq("first name", Str("O'Neil")),
        eq("level", Num(-12)),
        eq("score", Dec(15, 1)),
        eq("score", Dec(15, 8)),
        eq("isActive", Bool(TRUE)) },
      { eq("level", NaN),
        eq("level", Infinity),
        eq("level", NegInfinity) } }

Leaves == UNION Vocabularies

\* a value that is no string, number or boolean (typeof 'object')
Obj == [t |-> "object", v |-> 0]

\* The rows handed to evaluate: one with every column, one whose values have
\* other types or are no scalars, one with columns missing and a NaN, one
\* with an infinite number, one without any column.
EvalRows ==
    { ("role" :> Str("admin")) @@ ("dept" :> Str("Eng")) @@ ("level" :> Num(-12))
          @@ ("isActive" :> Bool(TRUE)) @@ ("first name" :> Str("O'Neil"))
          @@ ("score" :> Dec(15, 1)),
      ("role" :> Obj) @@ ("dept" :> Str("Product")) @@ ("level" :> Str("-12"))
          @@ ("isActive" :> Num(1)) @@ ("first name" :> Undefined)
          @@ ("score" :> Num(15)),
      ("dept" :> Str("Eng")) @@ ("isActive" :> Bool(FALSE)) @@ ("level" :> NaN)
          @@ ("score" :> Dec(15, 8)),
      ("level" :> Infinity) @@ ("score" :> Str("Infinity")),
      <<>> }

\* the leaves of an expression
RECURSIVE LeavesIn(_)
LeavesIn(expr) ==
    IF expr.type = "eq" THEN {expr}
    ELSE IF expr.type \in {"and", "or"}
         THEN UNION { LeavesIn(expr.children[i]) : i \in 1..Len(expr.children) }
    ELSE {}

\* leaves, empty nodes and absent operands of an expression
RECURSIVE Atoms(_)
Atoms(expr) ==
    IF expr.type \in {"and", "or"} /\ Len(expr.children) > 0
    THEN LET RECURSIVE Sum(_)
             Sum(cs) == IF cs = <<>> THEN 0 ELSE Atoms(Head(cs)) + Sum(Tail(cs))
         IN  Sum(expr.children)
    ELSE 1

RECURSIVE Size(_)
Size(exprs) == IF exprs = <<>> THEN 0 ELSE Atoms(Head(exprs)) + Size(Tail(exprs))

Top == stack[Len(stack)]
HasExpr == stack # <<>> /\ Top # Falsy

Frame ==
    UNCHANGED <<status, isActive, statusListener, table, listeners, subs, view,
                pending, current, nextTx, run, applied, destroyed, deferred,
                views, turn>>

DslInit ==
    LET w == constructor(NoWhere, "disconnected", FALSE, TRUE)
    IN  /\ status = "disconnected"
        /\ isActive = FALSE
        /\ view = w.view
        /\ subs = w.subs
        /\ listeners = w.listeners
        /\ statusListener = w.statusListener
        /\ table = {}
        /\ pending = <<>>
        /\ current = Idle
        /\ nextTx = 1
        /\ run = [tx |-> Null, recomputes |-> 0]
        /\ applied = 0
        /\ destroyed = FALSE
        /\ deferred = "none"
        /\ stack = <<>>
        /\ out = NoOut
        /\ views = <<>>
        /\ turn = NoTurn

\* eq(key, value)
CallEq ==
    /\ Size(stack) < MaxSize
    /\ \E leaf \in Leaves :
         /\ \E V \in Vocabularies :
              /\ leaf \in V
              /\ \A i \in 1..Len(stack) : LeavesIn(stack[i]) \subseteq V
         /\ stack' = Append(stack, eq(leaf.key, leaf.value))
         /\ out' = [op |-> "eq", args |-> <<leaf.key, leaf.value>>, row |-> <<>>,
                    result |-> eq(leaf.key, leaf.value)]
    /\ Frame

\* an operand that is absent: undefined, null or false (cond && eq(...))
PassFalsy ==
    /\ Size(stack) < MaxSize
    /\ stack' = Append(stack, Falsy)
    /\ out' = NoOut
    /\ Frame

\* and(...children) with the last n operands built
CallAnd(n) ==
    /\ n = 0 => Size(stack) < MaxSize
    /\ LET args == SubSeq(stack, Len(stack) - n + 1, Len(stack))
       IN  /\ stack' = Append(SubSeq(stack, 1, Len(stack) - n), and(args))
           /\ out' = [op |-> "and", args |-> args, row |-> <<>>, result |-> and(args)]
    /\ Frame

\* or(...children) with the last n operands built
CallOr(n) ==
    /\ n = 0 => Size(stack) < MaxSize
    /\ LET args == SubSeq(stack, Len(stack) - n + 1, Len(stack))
       IN  /\ stack' = Append(SubSeq(stack, 1, Len(stack) - n), or(args))
           /\ out' = [op |-> "or", args |-> args, row |-> <<>>, result |-> or(args)]
    /\ Frame

\* toString(expr)
CallToString ==
    /\ HasExpr
    /\ out' = [op |-> "toString", args |-> <<Top>>, row |-> <<>>,
               result |-> toString(Top)]
    /\ UNCHANGED stack
    /\ Frame

\* new TableQuery('users', ({where, ...}) => where(expr)): the text of #query
Construct ==
    /\ HasExpr
    /\ out' = [op |-> "query", args |-> <<where(Top)>>, row |-> <<>>,
               result |-> query("users", where(Top))]
    /\ UNCHANGED stack
    /\ Frame

\* new TableQuery('users'): no where-callback
ConstructPlain ==
    /\ stack = <<>>
    /\ out' = [op |-> "query", args |-> <<NoWhere>>, row |-> <<>>,
               result |-> query("users", NoWhere)]
    /\ UNCHANGED stack
    /\ Frame

\* evaluate(expr, row)
CallEvaluate ==
    /\ HasExpr
    /\ \E row \in EvalRows :
         out' = [op |-> "evaluate", args |-> <<Top>>, row |-> row,
                 result |-> evaluate(Top, row)]
    /\ UNCHANGED stack
    /\ Frame

DslNext ==
    \/ CallEq
    \/ PassFalsy
    \/ \E n \in 0..Len(stack) : CallAnd(n)
    \/ \E n \in 0..Len(stack) : CallOr(n)
    \/ CallToString
    \/ Construct
    \/ ConstructPlain
    \/ CallEvaluate

SpecDsl == DslInit /\ [][DslNext]_vars

\* ------------------------------------------------ two views on one table
\* The instances share the status store, the connection and the table: subs
\* and listeners hold the subscriptions and row callbacks of both, and
\* turn.owner tells which instance issued each of them.
Other(i) == 3 - i
WorldOf(i) ==
    [ view |-> views[i].view, subs |-> subs, listeners |-> listeners,
      statusListener |-> views[i].statusListener,
      status |-> status, isActive |-> isActive ]

\* instance i has run and left the world w
SetWorldOf(i, w, gone) ==
    /\ views' = [views EXCEPT ![i] = [view |-> Settled(w.view),
                                      statusListener |-> w.statusListener,
                                      destroyed |-> gone]]
    /\ subs' = w.subs
    /\ listeners' = w.listeners
    /\ turn' = [turn EXCEPT !.owner = IF Len(w.subs) > Len(subs)
                                      THEN Append(@, i) ELSE @]

Pinned == UNCHANGED <<statusListener, view, current, run, applied, destroyed,
                      deferred, stack, out, isActive>>

\* Two instances are constructed one after the other on an active client,
\* one with a predicate and one without.
TwoInit ==
    \E st \in {"disconnected", "connected"}, keyed \in BOOLEAN :
        LET none == [ view |-> NewView(NoWhere), subs |-> <<>>,
                      listeners |-> NoCallbacks(keyed),
                      statusListener |-> FALSE, status |-> st, isActive |-> TRUE ]
            w1 == constructorIn(none, where(eq("isActive", Bool(TRUE))))
            w2 == constructorIn(w1, NoWhere)
        IN  /\ status = st
            /\ isActive = TRUE
            /\ views = << [view |-> w1.view, statusListener |-> w1.statusListener,
                           destroyed |-> FALSE],
                          [view |-> w2.view, statusListener |-> w2.statusListener,
                           destroyed |-> FALSE] >>
            /\ subs = w2.subs
            /\ listeners = w2.listeners
            /\ turn = [owner |-> [k \in 1..Len(w2.subs) |->
                                     IF k <= Len(w1.subs) THEN 1 ELSE 2],
                       notify |-> <<>>, cursor |-> 1]
            /\ table = {}
            /\ pending = <<>>
            /\ nextTx = 1
            /\ applied = 0
            /\ view = NewView(NoWhere)
            /\ statusListener = FALSE
            /\ current = Idle
            /\ run = [tx |-> Null, recomputes |-> 0]
            /\ destroyed = FALSE
            /\ deferred = "none"
            /\ stack = <<>>
            /\ out = NoOut

\* neither the store nor the table is calling back
TwoQuiet == pending = <<>> /\ turn.notify = <<>>

\* SpacetimeDB.status.set(st): the store queues the subscribers it has
TwoSetStatus ==
    /\ TwoQuiet
    /\ \E i \in 1..Len(views) : views[i].statusListener
    /\ \E st \in {"disconnected", "connected"} :
         /\ st # status
         /\ status' = st
    /\ turn' = [turn EXCEPT !.notify =
                   SelectSeq(<<1, 2>>, LAMBDA i : views[i].statusListener)]
    /\ UNCHANGED <<views, table, listeners, subs, pending, nextTx>>
    /\ Pinned

\* the store calls the status listener of instance i
NotifyTo(i) ==
    /\ turn.notify # <<>>
    /\ Head(turn.notify) = i
    /\ LET w == handleStatusChange(WorldOf(i), status, TRUE)
       IN  /\ views' = [views EXCEPT ![i] = [@ EXCEPT !.view = Settled(w.view),
                                                      !.statusListener = w.statusListener]]
           /\ subs' = w.subs
           /\ listeners' = w.listeners
           /\ turn' = [turn EXCEPT !.notify = Tail(@),
                                   !.owner = IF Len(w.subs) > Len(subs)
                                             THEN Append(@, i) ELSE @]
    /\ UNCHANGED <<status, table, pending, nextTx>>
    /\ Pinned

TwoTransaction ==
    /\ TwoQuiet
    /\ \E i \in 1..Len(views) : ~views[i].destroyed
    /\ nextTx <= MaxTx
    /\ \E I \in SUBSET Ids :
         /\ I # {}
         /\ Cardinality(I) <= MaxOps
         /\ \E ch \in Changes(table, I, listeners.hasOnUpdate) :
              /\ table' = { r \in table : r.id.v \notin I }
                            \cup { ch[k].new : k \in { j \in 1..Len(ch) : ch[j].new # Gone } }
              /\ pending' = [k \in 1..Len(ch) |->
                                RawEvent(table, nextTx, ch[k].id, ch[k].new)]
    /\ nextTx' = nextTx + 1
    /\ turn' = [turn EXCEPT !.cursor = 1]
    /\ UNCHANGED <<status, views, listeners, subs>>
    /\ Pinned

\* the callbacks the table holds for the raw event it is emitting
Callbacks == listeners[Head(pending).kind]

\* the cursor moves on; past the last callback the next raw event is taken up
Advance ==
    IF turn.cursor >= Len(Callbacks)
    THEN /\ pending' = Tail(pending)
         /\ turn' = [turn EXCEPT !.cursor = 1]
    ELSE /\ pending' = pending
         /\ turn' = [turn EXCEPT !.cursor = @ + 1]

\* the table calls the next row callback, a closure of instance i
EmitTo(i) ==
    /\ pending # <<>>
    /\ turn.cursor <= Len(Callbacks)
    /\ turn.owner[Callbacks[turn.cursor]] = i
    /\ views' = [views EXCEPT ![i].view =
                    Settled(listener(views[i].view, table, Head(pending)))]
    /\ Advance
    /\ UNCHANGED <<status, table, listeners, subs, nextTx>>
    /\ Pinned

\* a raw event for which the table holds no callback
EmitToNone ==
    /\ pending # <<>>
    /\ Callbacks = <<>>
    /\ Advance
    /\ UNCHANGED <<status, views, table, listeners, subs, nextTx>>
    /\ Pinned

\* subscription k, issued by instance i, reports that its data is applied
AppliedTo(i) ==
    /\ TwoQuiet
    /\ \E k \in 1..Len(subs) :
         /\ turn.owner[k] = i
         /\ ~subs[k].cancelled
    /\ views' = [views EXCEPT ![i].view = Settled(onApplied(views[i].view, table))]
    /\ UNCHANGED <<status, table, listeners, subs, pending, nextTx, turn>>
    /\ Pinned

\* instance i is destroyed
DestroyOf(i) ==
    /\ TwoQuiet
    /\ ~views[i].destroyed
    /\ SetWorldOf(i, destroy(WorldOf(i)), TRUE)
    /\ UNCHANGED <<status, table, pending, nextTx>>
    /\ Pinned

TwoNext ==
    \/ TwoSetStatus
    \/ \E i \in 1..Len(views) : NotifyTo(i)
    \/ TwoTransaction
    \/ \E i \in 1..Len(views) : EmitTo(i)
    \/ EmitToNone
    \/ \E i \in 1..Len(views) : AppliedTo(i)
    \/ \E i \in 1..Len(views) : DestroyOf(i)

SpecTwo == TwoInit /\ [][TwoNext]_vars

\* ----------------------------------------------------------------- claims
\* membership of a row in the view, read off the predicate
Matches(wc, row) == wc = NoWhere \/ evaluate(wc, row)

\* the view is listening and the table has emitted everything it queued
Caught == ~destroyed /\ pending = <<>>

\* C1: whenever the view is ready and every raw event delivered so far has
\* been handled, rows is exactly the set of rows of the table that satisfy
\* the predicate (all rows of the table without a predicate).
C1_RowsReflectTable ==
    (state(view) = "ready" /\ Caught)
        => view.rows = { r \in table : Matches(view.whereClause, r) }

\* a ready view whose last raw event was not ignored and had its recompute
\* skipped as part of a transaction, over a table it filters properly
C1_Witness ==
    /\ state(view) = "ready" /\ Caught
    /\ current.ran > 0 /\ ~Ignored(view, current.ev) /\ view.recomputes = 0
    /\ view.rows # {} /\ view.rows # table

\* C2: a view issues the subscribe call at most once over its lifetime.
C2_SubscribeAtMostOnce == Len(subs) <= 1

\* C3: a subscribe attempt made while the client was not active is retried
\* on the next 'connected' transition at which the client is active, so by
\* then the view has subscribed.
C3_DeferredSubscribeIsRetried == deferred = "due" => Len(subs) >= 1

\* C4: every subscribe call was issued while the status was 'connected' and
\* the client was active.
C4_SubscribeOnlyWhenConnected ==
    \A i \in 1..Len(subs) : subs[i].status = "connected" /\ subs[i].active

\* a subscribe was issued, and the status has moved on since
C4_Witness == Len(subs) >= 1 /\ status # "connected"

\* C5: the consumer's onInitialSnapshot is invoked at most once, also when
\* the applied callback fires again and when raw events recompute rows.
C5_InitialSnapshotAtMostOnce == Len(view.snapshots) <= 1

\* the applied callback fired twice and a raw event recomputed rows
C5_Witness ==
    /\ applied = 2 /\ Len(view.snapshots) = 1
    /\ current.ran > 0 /\ view.recomputes > 0

\* C6: onInitialSnapshot is never invoked while the view is still loading.
C6_InitialSnapshotWhenReady ==
    \A i \in 1..Len(view.snapshots) : view.snapshots[i].state = "ready"

\* C7: the phase is 'ready' exactly when the applied callback has fired at
\* least once, and once 'ready' it never returns to 'loading'.
C7_PhaseMonotonic ==
    /\ [](state(view) = "ready" <=> applied > 0)
    /\ [][state(view) = "ready" => state(view)' = "ready"]_vars

\* ready, applied twice, then the status turned to error and the view was
\* destroyed
C7_Witness ==
    /\ state(view) = "ready" /\ applied = 2
    /\ status = "error" /\ destroyed

\* the one callback an update event (old, new) owes the consumer
Derived(wc, old, new) ==
    IF Matches(wc, old) /\ ~Matches(wc, new) THEN <<Call("onDelete", <<old>>)>>
    ELSE IF ~Matches(wc, old) /\ Matches(wc, new) THEN <<Call("onInsert", <<new>>)>>
    ELSE IF Matches(wc, old) /\ Matches(wc, new) THEN <<Call("onUpdate", <<old, new>>)>>
    ELSE <<>>

\* C8: for a raw update event the view invokes exactly the one callback its
\* membership change selects, and neither a callback nor a recompute when
\* the row stays out.
C8_UpdateInvokesOneDerivedAction ==
    (current.ev.kind = "update" /\ current.ran > 0) =>
        /\ view.calls = Derived(view.whereClause, current.ev.oldRow, current.ev.newRow)
        /\ (view.calls = <<>> => view.recomputes = 0)

\* C9: a raw insert or delete whose row fails the predicate invokes no
\* consumer callback and leaves rows, the phase and the last-seen
\* transaction identity unchanged.
C9_FailingRowIsIgnored ==
    [][ ( /\ pending # <<>>
          /\ Head(pending).kind \in {"insert", "delete"}
          /\ Len(listeners[Head(pending).kind]) > 0
          /\ ~Matches(view.whereClause, Head(pending).row) )
        => ( /\ view'.calls = <<>>
             /\ view'.snapshots = view.snapshots
             /\ view'.rows = view.rows
             /\ state(view)' = state(view)
             /\ view'.latestTransactionEvent = view.latestTransactionEvent ) ]_vars

\* the view has just been handed an insert or delete it ignores, while it
\* holds rows and a last-seen transaction
C9_Witness ==
    /\ current.ev.kind \in {"insert", "delete"} /\ current.ran > 0
    /\ Ignored(view, current.ev)
    /\ view.rows # {} /\ view.latestTransactionEvent # Null

\* C10: the non-ignored raw events of one transaction recompute rows exactly
\* once between them, and the transaction of the latest such event is the
\* last-seen identity.
C10_OneRecomputePerTransaction ==
    run.tx # Null =>
        /\ run.recomputes = 1
        /\ view.latestTransactionEvent = run.tx

\* the second event of the second transaction was handled without recompute
C10_Witness ==
    /\ current.ran > 0 /\ ~Ignored(view, current.ev)
    /\ view.recomputes = 0 /\ run.tx = 2 /\ run.recomputes = 1

\* C11: every raw event the view does not ignore invokes exactly one
\* consumer callback, whether or not its recompute was skipped.
C11_OneCallbackPerHandledEvent ==
    (current.ran > 0 /\ ~Ignored(view, current.ev)) => Len(view.calls) = 1

\* C12: once destroy() has returned the view has no status listener, no row
\* callback on the table and no uncancelled subscription left.
C12_NothingLeftAfterDestroy ==
    destroyed =>
        /\ ~statusListener
        /\ listeners.insert = <<>> /\ listeners.delete = <<>> /\ listeners.update = <<>>
        /\ \A i \in 1..Len(subs) : subs[i].cancelled

\* C13: a second destroy() does not call a subscription handle's
\* unsubscribe again.
C13_UnsubscribeCalledAtMostOnce ==
    \A i \in 1..Len(subs) : subs[i].unsubscribes <= 1

\* C20: while the view is loading it has no row callback registered on the
\* table, no raw event has invoked a consumer callback and rows is empty.
C20_NoListenersWhileLoading ==
    state(view) = "loading" =>
        /\ listeners.insert = <<>> /\ listeners.delete = <<>> /\ listeners.update = <<>>
        /\ view.calls = <<>>
        /\ view.rows = {}

\* the predicate of the scenario, and its rendering with and without the
\* outermost parentheses
Scenario ==
    and(<<eq("role", Str("admin")),
          or(<<eq("dept", Str("Eng")), eq("dept", Str("Product"))>>)>>)
ScenarioBare ==
    Chars("role") \o <<" ", "=", " ", "'">> \o Chars("admin") \o <<"'">> \o AndSep
        \o <<"(">> \o Chars("dept") \o <<" ", "=", " ", "'">> \o Chars("Eng") \o <<"'">>
        \o OrSep \o Chars("dept") \o <<" ", "=", " ", "'">> \o Chars("Product")
        \o <<"'", ")">>
ScenarioWrapped == <<"(">> \o ScenarioBare \o <<")">>

\* C14 (as the code has it): the scenario's predicate renders as
\* (role = 'admin' AND (dept = 'Eng' OR dept = 'Product')), and every AND/OR
\* node with two or more operands is rendered wrapped in parentheses, the
\* outermost one included; a leaf is never wrapped.
C14_CompoundsAreWrapped ==
    out.op = "toString" =>
        LET e == out.args[1]
            text == out.result
        IN  /\ e = Scenario => text = ScenarioWrapped
            /\ (e.type \in {"and", "or"} /\ Len(e.children) >= 2) =>
                   (Head(text) = "(" /\ text[Len(text)] = ")")
            /\ e.type = "eq" => Head(text) # "("

\* the scenario's predicate has been rendered
C14_Witness == out.op = "toString" /\ out.args[1] = Scenario

\* C14 (as stated): the scenario's predicate renders as
\* role = 'admin' AND (dept = 'Eng' OR dept = 'Product'), the outermost
\* expression not wrapped in parentheses.
C14_OutermostNotWrapped ==
    (out.op = "toString" /\ out.args[1] = Scenario) => out.result = ScenarioBare

\* C17: an equality leaf evaluates to true exactly when the row has the
\* column and its value is a string, number or boolean of the literal's type
\* and value (NaN being equal to no value); a missing column or a value that
\* is no scalar gives false.
C17_LeafIsStrictScalarEquality ==
    (out.op = "evaluate" /\ out.args[1].type = "eq") =>
        LET e == out.args[1]
            r == out.row
        IN  out.result =
              ( /\ e.key \in DOMAIN r
                /\ r[e.key].t \in {"string", "number", "boolean"}
                /\ r[e.key].t = e.value.t
                /\ DOMAIN r[e.key] = DOMAIN e.value
                /\ \A f \in DOMAIN e.value : r[e.key][f] = e.value[f]
                /\ ~(e.value.t = "number" /\ ~isFinite(e.value)
                                         /\ e.value.nonFinite = "NaN") )

\* a leaf was evaluated on a row whose column holds a value that is no scalar
C17_Witness ==
    /\ out.op = "evaluate" /\ out.args[1].type = "eq"
    /\ out.args[1].key \in DOMAIN out.row
    /\ out.row[out.args[1].key].t \notin {"string", "number", "boolean"}
    /\ out.result = FALSE

\* C18: on every row the zero-operand AND evaluates to true and the
\* zero-operand OR to false.
C18_EmptyNodesAreIdentities ==
    out.op = "evaluate" =>
        /\ out.args[1] = and(<<>>) => out.result = TRUE
        /\ out.args[1] = or(<<>>) => out.result = FALSE

\* and() was built and evaluated on a row that has columns
C18_Witness ==
    /\ out.op = "evaluate" /\ out.args[1] = and(<<>>)
    /\ out.row # <<>> /\ out.result = TRUE

\* C19: and(x) and or(x) with a single operand x return an expression
\* structurally equal to x, whatever the node type of x.
C19_SingleOperandIsReturned ==
    (out.op \in {"and", "or"} /\ Len(out.args) = 1 /\ out.args[1] # Falsy)
        => out.result = out.args[1]

\* or(x) was called with x an OR node of two operands
C19_Witness ==
    /\ out.op = "or" /\ Len(out.args) = 1
    /\ out.args[1].type = "or" /\ Len(out.args[1].children) = 2

\* ---- how the upstream reads a boolean expression: OR of ANDs of atoms, an
\* atom being a parenthesized expression or a comparison ident = literal
\* the open quote ("" if none) and the parenthesis depth after each character
Scan(s) ==
    LET f[i \in 0..Len(s)] ==
          IF i = 0 THEN [q |-> "", d |-> 0]
          ELSE LET p == f[i - 1]
                   c == s[i]
               IN  IF p.q # "" THEN (IF c = p.q THEN [p EXCEPT !.q = ""] ELSE p)
                   ELSE IF c \in {"'", "\""} THEN [p EXCEPT !.q = c]
                   ELSE IF c = "(" THEN [p EXCEPT !.d = @ + 1]
                   ELSE IF c = ")" THEN [p EXCEPT !.d = @ - 1]
                   ELSE p
    IN  f

\* where sep occurs outside quotes and parentheses
Tops(s, sep) ==
    LET f == Scan(s)
    IN  { i \in 1..(Len(s) - Len(sep) + 1) :
            /\ SubSeq(s, i, i + Len(sep) - 1) = sep
            /\ f[i - 1].q = "" /\ f[i - 1].d = 0 }

RECURSIVE SplitTop(_, _)
SplitTop(s, sep) ==
    LET T == Tops(s, sep)
    IN  IF T = {} THEN <<s>>
        ELSE LET i == CHOOSE k \in T : \A j \in T : k <= j
             IN  <<SubSeq(s, 1, i - 1)>>
                     \o SplitTop(SubSeq(s, i + Len(sep), Len(s)), sep)

\* s is one parenthesized expression: its first "(" closes at its last ")"
Wrapped(s) ==
    LET f == Scan(s)
    IN  /\ Len(s) >= 2 /\ Head(s) = "(" /\ s[Len(s)] = ")"
        /\ f[Len(s)].q = "" /\ f[Len(s)].d = 0
        /\ \A i \in 1..(Len(s) - 1) : f[i].d >= 1

Unreadable == [ok |-> FALSE, val |-> FALSE]

\* the text between two quotes q, every doubled q read as one
RECURSIVE Unquote(_, _)
Unquote(s, q) ==
    IF s = <<>> THEN [ok |-> TRUE, chars |-> <<>>]
    ELSE IF Head(s) # q
         THEN LET r == Unquote(Tail(s), q)
              IN  [ok |-> r.ok, chars |-> <<Head(s)>> \o r.chars]
    ELSE IF Len(s) >= 2 /\ s[2] = q
         THEN LET r == Unquote(SubSeq(s, 3, Len(s)), q)
              IN  [ok |-> r.ok, chars |-> <<q>> \o r.chars]
    ELSE [ok |-> FALSE, chars |-> <<>>]

Quoted(s, q) == Len(s) >= 2 /\ Head(s) = q /\ s[Len(s)] = q
Inner(s) == SubSeq(s, 2, Len(s) - 1)

ReadIdent(s) ==
    IF IsPlainIdent(s) THEN [ok |-> TRUE, chars |-> s]
    ELSE IF Quoted(s, "\"") THEN Unquote(Inner(s), "\"")
    ELSE [ok |-> FALSE, chars |-> <<>>]

DigitValue(c) == (CHOOSE i \in 1..Len(Digit) : Digit[i] = c) - 1

RECURSIVE ReadNat(_)
ReadNat(s) ==
    IF Len(s) = 1 THEN DigitValue(s[1])
    ELSE ReadNat(SubSeq(s, 1, Len(s) - 1)) * Len(Digit) + DigitValue(s[Len(s)])

IsNat(s) == s # <<>> /\ \A i \in 1..Len(s) : s[i] \in DigitChars

RECURSIVE pow10(_)
pow10(k) == IF k = 0 THEN 1 ELSE Len(Digit) * pow10(k - 1)

\* the number m / 10^k: a Num when it is an integer of at most 9 digits
RECURSIVE Decimal(_, _)
Decimal(m, k) ==
    IF m = 0 \/ k = 0 THEN Num(m)
    ELSE IF m % Len(Digit) = 0 THEN Decimal(m \div Len(Digit), k - 1)
    ELSE IF k > 0 THEN Dec(m, k)
    ELSE IF Len(digits(IF m < 0 THEN 0 - m ELSE m)) - k <= 9
         THEN Num(m * pow10(0 - k))
    ELSE Dec(m, k)

\* digits, or digits "." digits
IsMantissa(s) ==
    \/ IsNat(s)
    \/ \E p \in 2..(Len(s) - 1) :
         /\ s[p] = "."
         /\ IsNat(SubSeq(s, 1, p - 1))
         /\ IsNat(SubSeq(s, p + 1, Len(s)))

\* digits with an optional sign
IsExponent(s) ==
    \/ IsNat(s)
    \/ s # <<>> /\ Head(s) \in {"+", "-"} /\ IsNat(Tail(s))

\* a mantissa, optionally followed by "e" and an exponent
IsUnsigned(s) ==
    \/ IsMantissa(s)
    \/ \E p \in 2..(Len(s) - 1) :
         /\ s[p] = "e"
         /\ IsMantissa(SubSeq(s, 1, p - 1))
         /\ IsExponent(SubSeq(s, p + 1, Len(s)))

\* the number an unsigned literal denotes, negated when neg
ReadUnsigned(s, neg) ==
    LET E == { p \in 1..Len(s) : s[p] = "e" }
        q == IF E = {} THEN Len(s) + 1 ELSE CHOOSE p \in E : TRUE
        mant == SubSeq(s, 1, q - 1)
        ex == SubSeq(s, q + 1, Len(s))
        x == IF ex = <<>> THEN 0
             ELSE IF Head(ex) = "-" THEN 0 - ReadNat(Tail(ex))
             ELSE IF Head(ex) = "+" THEN ReadNat(Tail(ex))
             ELSE ReadNat(ex)
        P == { p \in 1..Len(mant) : mant[p] = "." }
        p == IF P = {} THEN Len(mant) + 1 ELSE CHOOSE r \in P : TRUE
        whole == SubSeq(mant, 1, p - 1)
        frac == SubSeq(mant, p + 1, Len(mant))
        m == ReadNat(whole \o frac)
    IN  Decimal(IF neg THEN 0 - m ELSE m, Len(frac) - x)

\* the literal a text denotes: its type, and its characters (a quoted text
\* is a string), its number or its truth value
ReadLiteral(s) ==
    IF Quoted(s, "'")
    THEN LET u == Unquote(Inner(s), "'")
         IN  [ok |-> u.ok, t |-> "string", chars |-> u.chars, v |-> 0]
    ELSE IF s = <<"T", "R", "U", "E">>
         THEN [ok |-> TRUE, t |-> "boolean", chars |-> <<>>, v |-> TRUE]
    ELSE IF s = <<"F", "A", "L", "S", "E">>
         THEN [ok |-> TRUE, t |-> "boolean", chars |-> <<>>, v |-> FALSE]
    ELSE IF IsUnsigned(s)
         THEN [ok |-> TRUE, t |-> "number", chars |-> <<>>,
               v |-> ReadUnsigned(s, FALSE)]
    ELSE IF s # <<>> /\ Head(s) = "-" /\ IsUnsigned(Tail(s))
         THEN [ok |-> TRUE, t |-> "number", chars |-> <<>>,
               v |-> ReadUnsigned(Tail(s), TRUE)]
    ELSE [ok |-> FALSE, t |-> "none", chars |-> <<>>, v |-> 0]

\* the value x of a row's column is the literal lit
IsLiteral(x, lit) ==
    /\ x.t = lit.t
    /\ CASE lit.t = "string" -> x.v \in DOMAIN Spelling /\ Spelling[x.v] = lit.chars
         [] lit.t = "number" -> DOMAIN x = DOMAIN lit.v /\ x = lit.v
         [] OTHER -> x.v = lit.v

\* ident = literal, read against a row
Comparison(s, row) ==
    LET T == Tops(s, <<" ", "=", " ">>)
    IN  IF T = {} THEN Unreadable
        ELSE LET i == CHOOSE k \in T : \A j \in T : k <= j
                 id == ReadIdent(SubSeq(s, 1, i - 1))
                 lit == ReadLiteral(SubSeq(s, i + 3, Len(s)))
             IN  IF ~id.ok \/ ~lit.ok THEN Unreadable
                 ELSE [ok |-> TRUE,
                       val |-> \E k \in DOMAIN row :
                                   /\ k \in DOMAIN Spelling
                                   /\ Spelling[k] = id.chars
                                   /\ IsLiteral(row[k], lit)]

RECURSIVE MeaningOr(_, _), MeaningAnd(_, _), MeaningAtom(_, _)
MeaningOr(s, row) ==
    LET parts == SplitTop(s, OrSep)
        ms == [i \in 1..Len(parts) |-> MeaningAnd(parts[i], row)]
    IN  [ok |-> \A i \in 1..Len(parts) : ms[i].ok,
         val |-> \E i \in 1..Len(parts) : ms[i].val]

MeaningAnd(s, row) ==
    LET parts == SplitTop(s, AndSep)
        ms == [i \in 1..Len(parts) |-> MeaningAtom(parts[i], row)]
    IN  [ok |-> \A i \in 1..Len(parts) : ms[i].ok,
         val |-> \A i \in 1..Len(parts) : ms[i].val]

MeaningAtom(s, row) ==
    IF Wrapped(s) THEN MeaningOr(Inner(s), row) ELSE Comparison(s, row)

\* the text is a boolean expression the upstream can read
WellFormed(s) == MeaningOr(s, <<>>).ok

\* s begins with the text p
StartsWith(s, p) == Len(s) >= Len(p) /\ SubSeq(s, 1, Len(p)) = p
After(s, p) == SubSeq(s, Len(p) + 1, Len(s))

\* C15: the query text of a view is SELECT * FROM <table>, followed when the
\* view has a predicate by WHERE and a non-empty well-formed boolean
\* expression.
C15_QueryTextIsWellFormed ==
    out.op = "query" =>
        LET head == SelectFrom \o Chars("users")
        IN  IF out.args[1] = NoWhere THEN out.result = head
            ELSE /\ StartsWith(out.result, head \o Where)
                 /\ After(out.result, head \o Where) # <<>>
                 /\ WellFormed(After(out.result, head \o Where))

\* C16: on every row the rendered text of an expression, read as a boolean
\* expression, has a meaning and that meaning is evaluate(expr, row).
C16_TextMeansWhatEvaluateComputes ==
    out.op = "evaluate" =>
        LET m == MeaningOr(toString(out.args[1]), out.row)
        IN  m.ok /\ m.val = out.result

\* no AND directly under an AND, no OR directly under an OR, no AND/OR node
\* with exactly one child, at any depth
RECURSIVE Flattened(_)
Flattened(e) ==
    e.type \in {"and", "or"} =>
        /\ Len(e.children) # 1
        /\ \A i \in 1..Len(e.children) :
              /\ e.children[i].type # e.type
              /\ Flattened(e.children[i])

\* the equality leaves of an expression, left to right
RECURSIVE Fringe(_)
Fringe(e) ==
    IF e.type = "eq" THEN <<e>>
    ELSE IF e.type \in {"and", "or"}
         THEN LET RECURSIVE Cat(_)
                  Cat(cs) == IF cs = <<>> THEN <<>>
                             ELSE Fringe(Head(cs)) \o Cat(Tail(cs))
              IN  Cat(e.children)
    ELSE <<>>

RECURSIVE FringeOfAll(_)
FringeOfAll(es) ==
    IF es = <<>> THEN <<>> ELSE Fringe(Head(es)) \o FringeOfAll(Tail(es))

\* C21: every expression and() or or() returns is flattened, and its leaves
\* are the leaves of the operands in the order the operands were supplied.
C21_BuiltExpressionsAreFlattened ==
    out.op \in {"and", "or"} =>
        /\ Flattened(out.result)
        /\ Fringe(out.result) = FringeOfAll(out.args)

\* and() was handed an AND node of two operands followed by a leaf
C21_Witness ==
    /\ out.op = "and" /\ Len(out.args) = 2
    /\ out.args[1].type = "and" /\ Len(out.args[1].children) = 2
    /\ out.args[2].type = "eq"
    /\ Len(out.result.children) = 3

\* C23: while a raw event is handled every consumer callback is invoked
\* before rows is recomputed for that event.
C23_CallbackBeforeRecompute ==
    current.ran > 0 =>
        \A i \in 1..Len(view.trace) :
            view.trace[i] = "callback" =>
                \A j \in 1..(i - 1) : view.trace[j] # "recompute"

\* the row callbacks and the subscriptions instance j has on the shared
\* table and connection
OwnedBy(j, ls, ss, owner) ==
    [ insert |-> SelectSeq(ls.insert, LAMBDA k : owner[k] = j),
      delete |-> SelectSeq(ls.delete, LAMBDA k : owner[k] = j),
      update |-> SelectSeq(ls.update, LAMBDA k : owner[k] = j),
      subs |-> [k \in { n \in 1..Len(ss) : owner[n] = j } |-> ss[k]] ]

\* a step of instance i: its status listener, one of its row callbacks, the
\* applied callback of one of its subscriptions, or its destroy()
StepOf(i) == NotifyTo(i) \/ EmitTo(i) \/ AppliedTo(i) \/ DestroyOf(i)

\* C22: a step of one view leaves the other view's rows, phase, last-seen
\* transaction and every other field, its status listener, its row callbacks
\* and its subscriptions as they were; and a view that is not destroyed
\* keeps rows equal to the filtered table whatever the other view did.
C22_ViewsAreIndependent ==
    /\ [][ \A i \in 1..Len(views) :
              \/ /\ views'[Other(i)] = views[Other(i)]
                 /\ OwnedBy(Other(i), listeners', subs', turn'.owner)
                      = OwnedBy(Other(i), listeners, subs, turn'.owner)
              \/ ~StepOf(i) ]_vars
    /\ [](\A j \in 1..Len(views) :
              ( /\ ~views[j].destroyed
                /\ state(views[j].view) = "ready"
                /\ TwoQuiet )
              => views[j].view.rows
                   = { r \in table : Matches(views[j].view.whereClause, r) })

\* the unfiltered view subscribed and was destroyed before any transaction;
\* the filtered view went on, handled a transaction and holds its rows
C22_Witness ==
    /\ Len(views) = 2
    /\ views[2].destroyed
    /\ \E k \in 1..Len(subs) : turn.owner[k] = 2
    /\ views[2].view.latestTransactionEvent = Null
    /\ ~views[1].destroyed
    /\ state(views[1].view) = "ready"
    /\ views[1].view.latestTransactionEvent # Null
    /\ views[1].view.rows # {}
    /\ TwoQuiet

====
